---- MODULE Spec2Model ----
(***************************************************************************)
(* PascoAI Crypto Lab: the PASCO1 token engine (src/lib/crypto.ts, kept as *)
(* src/unnamed/part_006) and the page that calls it and keeps the          *)
(* per-device attempt counters (src/pages/CryptoLab.tsx, kept as           *)
(* src/unnamed/part_004).                                                  *)
(*                                                                         *)
(* Strings (passwords, plaintext) are sequences of code points, bytes are  *)
(* 0..255, base64 characters are one-character strings.  A token           *)
(* is kept as the sequence of its dot-separated segments, i.e. as the      *)
(* value of trimmed.split("."): <<"PASCO1", header segment, ciphertext     *)
(* segment>> for a well-formed one.  The header segment is kept as the     *)
(* JSON object it encodes (or as garbage); the ciphertext segment is kept  *)
(* character by character and goes through the real base64url codec.       *)
(*                                                                         *)
(* WebCrypto is a library: PBKDF2 is modelled as an ideal (injective,      *)
(* deterministic) key derivation, SHA-256 as an ideal (injective) digest,  *)
(* AES-GCM as an authenticated cipher whose tag binds key, IV and body.    *)
(*                                                                         *)
(* The page's history list (pushHistory, HISTORY_KEY) is written by the    *)
(* handlers but never read by the lockout code; it is followed in          *)
(* SpecHistory, where every handler step is taken together with its        *)
(* pushHistory, and stands still elsewhere.  The progress bar is left out. *)
(***************************************************************************)
EXTENDS Integers, Sequences, FiniteSets, TLC

VARIABLES
    attempts,        \* localStorage[ATTEMPTS_KEY] of the device: fingerprint -> count
    pc,              \* per tab: position of the runDecrypt invocation in flight
    token,           \* per tab: runDecrypt's const token
    password,        \* per tab: decPassword captured by the invocation
    res,             \* per tab: outcome of the await decryptToken(...)
    attemptsMap,     \* per tab: runDecrypt's local const attemptsMap (a copy)
    fp,              \* per tab: the catch block's let fp
    decBusy,         \* per tab: React state decBusy
    decrypted,       \* per tab: React state decryptedText / decryptedFileBytes+Meta
    toast,           \* per tab: the toast shown by the tab's latest step, if any
    encpc,           \* per tab: position of the runEncrypt* invocation in flight
    encIn,           \* per tab: inputs captured by the runEncrypt* invocation
    encBusy,         \* per tab: React state encBusy
    encryptedToken,  \* per tab: React state encryptedToken
    runs,            \* handler invocations started so far (counted in SpecTabs)
    streak,          \* history: the run of wrong-password attempts last seen (Spec)
    expected,        \* history: the failures an atomic counter would show (SpecTabs)
    calls,           \* direct calls of the engine's exports, with their results
    device,          \* the device whose page is followed; attempts is its storage
    stores,          \* localStorage[ATTEMPTS_KEY] of each of the other devices
    tried,           \* history: <<device, fingerprint>> of the decrypt attempts made
    reloaded,        \* history: the stored map at the latest reload of the page
    subtle,          \* whether the host provides crypto.subtle
    history,         \* per tab: React state history (followed in SpecHistory)
    historyStore,    \* localStorage[HISTORY_KEY] of the device
    closure          \* per tab: the history each invocation in flight has captured

vars == <<attempts, pc, token, password, res, attemptsMap, fp, decBusy, decrypted,
          toast, encpc, encIn, encBusy, encryptedToken, runs, streak, expected, calls,
          device, stores, tried, reloaded, subtle, history, historyStore, closure>>

DeviceVars == << device, stores, tried, reloaded >>
HostVars == << subtle, history, historyStore, closure >>

(***************************************************************************)
(* Bounds of the model                                                     *)
(***************************************************************************)
NumTabs == 2     \* tabs of the page open on the one device
MaxCount == 6    \* no handler starts once the counters of the device sum to this
MaxRuns == 2     \* handler invocations in one concurrent session (SpecTabs)

Tabs == 1..NumTabs

(***************************************************************************)
(* Program constants                                                       *)
(***************************************************************************)
maxAttempts == 5
SaltLen == 16
IvLen == 12
TagLen == 16
MinIterations == 50000
MaxIterations == 600000
TextIterations == 220000
FileIterations == 260000

\* a call that throws yields [ok |-> FALSE, message |-> ...]; one that returns
\* yields a record with ok |-> TRUE
Throw(msg) == [ok |-> FALSE, message |-> msg]

RECURSIVE SumBytes(_)
SumBytes(s) == IF s = <<>> THEN 0 ELSE s[1] + SumBytes(Tail(s))

Range(s) == {s[i] : i \in 1..Len(s)}

(***************************************************************************)
(* base64 / base64url (btoa, atob, toB64Url, fromB64Url)                    *)
(***************************************************************************)
B64Std == <<"A","B","C","D","E","F","G","H","I","J","K","L","M","N","O","P",
            "Q","R","S","T","U","V","W","X","Y","Z","a","b","c","d","e","f",
            "g","h","i","j","k","l","m","n","o","p","q","r","s","t","u","v",
            "w","x","y","z","0","1","2","3","4","5","6","7","8","9","+","/">>

B64Index(c) == (CHOOSE i \in 1..64 : B64Std[i] = c) - 1

\* btoa: three bytes give four characters; a rest of one or two bytes gives two
\* or three characters and "=" padding.
btoa(bytes) ==
    [k \in 1..(4 * ((Len(bytes) + 2) \div 3)) |->
        LET g == 3 * ((k - 1) \div 4)
            r == (k - 1) % 4
        IN IF r = 0 THEN B64Std[(bytes[g + 1] \div 4) + 1]
           ELSE IF r = 1 THEN
               B64Std[((bytes[g + 1] % 4) * 16
                       + (IF g + 2 <= Len(bytes) THEN bytes[g + 2] \div 16 ELSE 0)) + 1]
           ELSE IF r = 2 THEN
               IF g + 2 > Len(bytes) THEN "="
               ELSE B64Std[((bytes[g + 2] % 16) * 4
                            + (IF g + 3 <= Len(bytes) THEN bytes[g + 3] \div 64 ELSE 0)) + 1]
           ELSE IF g + 3 > Len(bytes) THEN "=" ELSE B64Std[(bytes[g + 3] % 64) + 1]]

\* String.replace of one character by another, everywhere
ReplaceAll(s, from, to) == [i \in 1..Len(s) |-> IF s[i] = from THEN to ELSE s[i]]

RECURSIVE StripPad(_)
StripPad(s) == IF Len(s) > 0 /\ s[Len(s)] = "=" THEN StripPad(SubSeq(s, 1, Len(s) - 1)) ELSE s

toB64Url(bytes) == StripPad(ReplaceAll(ReplaceAll(btoa(bytes), "+", "-"), "/", "_"))

\* "===".slice(n)
PadSlice(n) == IF n = 0 THEN <<"=","=","=">> ELSE IF n = 1 THEN <<"=","=">>
               ELSE IF n = 2 THEN <<"=">> ELSE <<>>

\* the sextets of a string of alphabet characters, decoded four at a time; a rest
\* of two or three characters gives one or two bytes, the spare bits dropped
DecodeSextets(s) ==
    [k \in 1..((Len(s) * 3) \div 4) |->
        LET g == 4 * ((k - 1) \div 3)
            r == (k - 1) % 3
        IN IF r = 0 THEN B64Index(s[g + 1]) * 4 + B64Index(s[g + 2]) \div 16
           ELSE IF r = 1 THEN (B64Index(s[g + 2]) % 16) * 16 + B64Index(s[g + 3]) \div 4
           ELSE (B64Index(s[g + 3]) % 4) * 64 + B64Index(s[g + 4])]

\* atob (forgiving-base64 decode): with a length divisible by four, up to two
\* trailing "=" are removed; a rest of one character, or any character outside
\* the alphabet, throws.
Unpadded(s) ==
    LET n == Len(s)
    IN IF n % 4 = 0 /\ n >= 2 /\ s[n] = "=" /\ s[n - 1] = "=" THEN SubSeq(s, 1, n - 2)
       ELSE IF n % 4 = 0 /\ n >= 1 /\ s[n] = "=" THEN SubSeq(s, 1, n - 1) ELSE s

atob(s) ==
    LET Decode[data \in {Unpadded(s)}] ==
            IF Len(data) % 4 = 1 \/ ~(Range(data) \subseteq Range(B64Std))
            THEN Throw("InvalidCharacterError")
            ELSE [ok |-> TRUE, bytes |-> DecodeSextets(data)]
    IN Decode[Unpadded(s)]

fromB64Url(b64url) ==
    atob(ReplaceAll(ReplaceAll(b64url, "-", "+"), "_", "/")
         \o PadSlice((Len(b64url) + 3) % 4))

(***************************************************************************)
(* Text codec (TextEncoder / TextDecoder).  A string is the sequence of    *)
(* its code points; a value in 55296..57343 stands for a lone surrogate    *)
(* code unit of the JavaScript string.                                     *)
(***************************************************************************)
ReplacementChar == 65533
ByteOrderMark == 65279

IsSurrogate(c) == c >= 55296 /\ c <= 57343

\* the UTF-8 bytes of one scalar value
EncodeScalar(c) ==
    IF c < 128 THEN << c >>
    ELSE IF c < 2048 THEN << 192 + c \div 64, 128 + (c % 64) >>
    ELSE IF c < 65536
    THEN << 224 + c \div 4096, 128 + ((c \div 64) % 64), 128 + (c % 64) >>
    ELSE << 240 + c \div 262144, 128 + ((c \div 4096) % 64),
            128 + ((c \div 64) % 64), 128 + (c % 64) >>

\* TextEncoder.encode: the string is converted to scalar values first, which
\* replaces every lone surrogate by U+FFFD
RECURSIVE utf8Encode(_)
utf8Encode(s) ==
    IF s = <<>> THEN <<>>
    ELSE EncodeScalar(IF IsSurrogate(s[1]) THEN ReplacementChar ELSE s[1])
         \o utf8Encode(Tail(s))

\* the UTF-8 decoder's bounds for the byte that follows lead byte b
SecondLow(b) == IF b = 224 THEN 160 ELSE IF b = 240 THEN 144 ELSE 128
SecondHigh(b) == IF b = 237 THEN 159 ELSE IF b = 244 THEN 143 ELSE 191
Needed(b) == IF b >= 194 /\ b <= 223 THEN 1
             ELSE IF b >= 224 /\ b <= 239 THEN 2
             ELSE IF b >= 240 /\ b <= 244 THEN 3 ELSE 0
LeadBits(b) == IF b <= 223 THEN b - 192 ELSE IF b <= 239 THEN b - 224 ELSE b - 240

\* the decoder after a lead byte: need continuation bytes are still due, cp is
\* the code point so far, the next byte must lie in lo..hi.  A byte out of
\* range ends the sequence with one U+FFFD and is decoded again on its own.
RECURSIVE DecodeFrom(_, _, _, _, _)
DecodeFrom(bytes, need, cp, lo, hi) ==
    IF need = 0
    THEN IF bytes = <<>> THEN <<>>
         ELSE IF bytes[1] < 128
              THEN << bytes[1] >> \o DecodeFrom(Tail(bytes), 0, 0, 128, 191)
         ELSE IF Needed(bytes[1]) = 0
              THEN << ReplacementChar >> \o DecodeFrom(Tail(bytes), 0, 0, 128, 191)
         ELSE DecodeFrom(Tail(bytes), Needed(bytes[1]), LeadBits(bytes[1]),
                         SecondLow(bytes[1]), SecondHigh(bytes[1]))
    ELSE IF bytes = <<>> THEN << ReplacementChar >>
    ELSE IF bytes[1] < lo \/ bytes[1] > hi
         THEN << ReplacementChar >> \o DecodeFrom(bytes, 0, 0, 128, 191)
    ELSE IF need = 1
         THEN << cp * 64 + (bytes[1] - 128) >> \o DecodeFrom(Tail(bytes), 0, 0, 128, 191)
    ELSE DecodeFrom(Tail(bytes), need - 1, cp * 64 + (bytes[1] - 128), 128, 191)

\* new TextDecoder().decode: UTF-8, not fatal, and a byte order mark at the
\* start is dropped
utf8Decode(bytes) ==
    IF Len(bytes) >= 3 /\ SubSeq(bytes, 1, 3) = << 239, 187, 191 >>
    THEN DecodeFrom(SubSeq(bytes, 4, Len(bytes)), 0, 0, 128, 191)
    ELSE DecodeFrom(bytes, 0, 0, 128, 191)

\* WhiteSpace and LineTerminator of ECMAScript
IsSpace(c) ==
    c \in {9, 10, 11, 12, 13, 32, 160, 5760, 8232, 8233, 8239, 8287, 12288, ByteOrderMark}
          \cup (8192..8202)

\* String.prototype.trim
RECURSIVE trim(_)
trim(s) ==
    IF s = <<>> THEN s
    ELSE IF IsSpace(s[1]) THEN trim(Tail(s))
    ELSE IF IsSpace(s[Len(s)]) THEN trim(SubSeq(s, 1, Len(s) - 1))
    ELSE s

(***************************************************************************)
(* WebCrypto, idealised                                                    *)
(***************************************************************************)
HexDigit == <<"0","1","2","3","4","5","6","7","8","9","a","b","c","d","e","f">>

RECURSIVE HexOf(_)
HexOf(bytes) ==
    IF bytes = <<>> THEN <<>>
    ELSE << HexDigit[(bytes[1] \div 16) + 1], HexDigit[(bytes[1] % 16) + 1] >>
         \o HexOf(Tail(bytes))

\* assertWebCrypto: typeof crypto === "undefined" || !crypto.subtle throws;
\* assertWebCryptoAlways is the faulty variant that never throws
EnvMessage == "WebCrypto is not available in this environment."
assertWebCryptoAlways == [ok |-> TRUE]
assertWebCrypto == IF subtle THEN [ok |-> TRUE] ELSE Throw(EnvMessage)

\* crypto.subtle.digest("SHA-256", .) as an injective digest, then hex, two
\* digits a byte
sha256Hex(bytes) == HexOf(bytes)

\* PBKDF2-SHA256: the key is determined by, and determines, its three inputs;
\* deriveKeyOfSalt is the faulty variant that leaves the password out
deriveKeyOfSalt(pw, salt, iterations) ==
    [password |-> <<>>, salt |-> salt, iterations |-> iterations]
deriveKey(pw, salt, iterations) ==
    [password |-> utf8Encode(pw), salt |-> salt, iterations |-> iterations]

\* the key stream byte and the tag of the model's AES-GCM: both depend on every
\* byte of key material and IV; the tag also on every byte of the body
KeyMix(key, iv) ==
    (SumBytes(key.password) * 7 + SumBytes(key.salt) * 3 + SumBytes(iv) * 5
     + key.iterations \div 10000) % 256

GcmTag(key, iv, body) ==
    << KeyMix(key, iv), SumBytes(key.password) % 256, SumBytes(key.salt) % 256,
       SumBytes(iv) % 256, key.iterations % 256, (key.iterations \div 256) % 256,
       (key.iterations \div 65536) % 256, SumBytes(body) % 256, Len(body) % 256 >>
    \o [i \in 1..(TagLen - 9) |-> 0]

\* crypto.subtle.encrypt({name: "AES-GCM", iv}, key, pt): body, then the tag;
\* AesGcmEncryptPlain is the faulty variant that uses neither key nor IV
AesGcmEncryptPlain(key, iv, pt) == pt \o [i \in 1..TagLen |-> 0]
AesGcmEncrypt(key, iv, pt) ==
    LET body == [i \in 1..Len(pt) |-> (pt[i] + KeyMix(key, iv)) % 256]
    IN body \o GcmTag(key, iv, body)

\* crypto.subtle.decrypt({name: "AES-GCM", iv}, key, ct): rejects a ciphertext
\* shorter than the tag or whose tag does not match; AesGcmDecryptUnchecked is
\* the faulty variant that does not compare the tag
AesGcmDecryptUnchecked(key, iv, ct) ==
    IF Len(ct) < TagLen THEN Throw("OperationError")
    ELSE [ok |-> TRUE,
          bytes |-> [i \in 1..(Len(ct) - TagLen) |-> (ct[i] - KeyMix(key, iv) + 256) % 256]]
AesGcmDecrypt(key, iv, ct) ==
    IF Len(ct) < TagLen THEN Throw("OperationError")
    ELSE LET body == SubSeq(ct, 1, Len(ct) - TagLen)
             tag == SubSeq(ct, Len(ct) - TagLen + 1, Len(ct))
         IN IF tag # GcmTag(key, iv, body) THEN Throw("OperationError")
            ELSE [ok |-> TRUE,
                  bytes |-> [i \in 1..Len(body) |-> (body[i] - KeyMix(key, iv) + 256) % 256]]

(***************************************************************************)
(* Token codec and the engine's exports (src/lib/crypto.ts)                *)
(***************************************************************************)
\* packHeader: JSON.stringify, UTF-8, base64url.  The segment is kept as the
\* object it encodes; a field whose value is undefined is not a field.
packHeader(header) == [json |-> header]

\* unpackHeader: a segment that is not base64url of JSON text makes atob or
\* JSON.parse throw; unpackHeaderOfKind is the faulty variant that keeps the
\* header's kind "text" whatever the segment says
unpackHeaderOfKind(b64url) ==
    IF "json" \in DOMAIN b64url
    THEN [ok |-> TRUE, header |-> [kind |-> "text"] @@ b64url.json]
    ELSE Throw("SyntaxError")
unpackHeader(b64url) ==
    IF "json" \in DOMAIN b64url THEN [ok |-> TRUE, header |-> b64url.json]
    ELSE Throw("SyntaxError")

\* Math.max(50_000, Math.min(600_000, opts.iterations ?? dflt));
\* ClampIterationsNoFloor is the faulty variant without the Math.max
ClampIterationsNoFloor(opts, dflt) ==
    LET n == IF "iterations" \in DOMAIN opts THEN opts.iterations ELSE dflt
    IN IF n < MaxIterations THEN n ELSE MaxIterations
ClampIterations(opts, dflt) ==
    LET n == IF "iterations" \in DOMAIN opts THEN opts.iterations ELSE dflt
        lo == IF n < MaxIterations THEN n ELSE MaxIterations
    IN IF lo > MinIterations THEN lo ELSE MinIterations

\* note: opts.note?.trim() || undefined
NoteField(opts) ==
    IF "note" \in DOMAIN opts /\ trim(opts.note) # <<>>
    THEN [note |-> trim(opts.note)] ELSE <<>>

\* lines 108-133 of encryptText; salt and iv are what crypto.getRandomValues
\* returned, now is new Date().toISOString()
EncryptedText(text, opts, salt, iv, now) ==
    LET iterations == ClampIterations(opts, TextIterations)
        key == deriveKey(opts.password, salt, iterations)
        pt == utf8Encode(text)
        ctBytes == AesGcmEncrypt(key, iv, pt)
        header == [v |-> 1, alg |-> "AES-256-GCM", kdf |-> "PBKDF2-SHA256",
                   iter |-> iterations, salt |-> toB64Url(salt), iv |-> toB64Url(iv),
                   createdAt |-> now, kind |-> "text"] @@ NoteField(opts)
    IN [ok |-> TRUE,
        token |-> << "PASCO1", packHeader(header), toB64Url(ctBytes) >>,
        header |-> header,
        fingerprint |-> sha256Hex(ctBytes)]

\* lines 142-172 of encryptFile; file is [name, type, size, bytes]
EncryptedFile(file, opts, salt, iv, now) ==
    LET iterations == ClampIterations(opts, FileIterations)
        key == deriveKey(opts.password, salt, iterations)
        pt == file.bytes
        ctBytes == AesGcmEncrypt(key, iv, pt)
        header == [v |-> 1, alg |-> "AES-256-GCM", kdf |-> "PBKDF2-SHA256",
                   iter |-> iterations, salt |-> toB64Url(salt), iv |-> toB64Url(iv),
                   createdAt |-> now, kind |-> "file", filename |-> file.name,
                   mime |-> IF file.type = "" THEN "application/octet-stream" ELSE file.type,
                   size |-> file.size] @@ NoteField(opts)
    IN [ok |-> TRUE,
        token |-> << "PASCO1", packHeader(header), toB64Url(ctBytes) >>,
        header |-> header,
        fingerprint |-> sha256Hex(ctBytes)]

\* the exports encryptText and encryptFile: assertWebCrypto() comes first
encryptText(text, opts, salt, iv, now) ==
    IF ~assertWebCrypto.ok THEN assertWebCrypto
    ELSE EncryptedText(text, opts, salt, iv, now)

encryptFile(file, opts, salt, iv, now) ==
    IF ~assertWebCrypto.ok THEN assertWebCrypto
    ELSE EncryptedFile(file, opts, salt, iv, now)

\* trimmed.startsWith("PASCO1."), on the segments of the token; HasPrefixLoose
\* is the faulty variant that takes any first segment
HasPrefixLoose(parts) == Len(parts) >= 2
HasPrefix(parts) == Len(parts) >= 2 /\ parts[1] = "PASCO1"

\* fromB64Url(header.salt) / fromB64Url(header.iv): a missing field throws too
HeaderBytes(header, field) ==
    IF field \in DOMAIN header THEN fromB64Url(header[field]) ELSE Throw("TypeError")

\* the steps of decryptToken after the three header checks; work lists the
\* WebCrypto operations the call has started.  DecryptBodyTelling is the
\* faulty variant that lets the error of crypto.subtle.decrypt through
DecryptBodyTelling(parts, header, pw) ==
    LET salt == HeaderBytes(header, "salt")
        iv == HeaderBytes(header, "iv")
        ct == fromB64Url(parts[3])
    IN IF ~salt.ok \/ ~iv.ok \/ ~ct.ok THEN Throw("InvalidCharacterError") @@ [work |-> {}]
       ELSE IF ~("iter" \in DOMAIN header /\ header.iter \in Nat \ {0})
            THEN Throw("OperationError") @@ [work |-> {"deriveKey"}]
       ELSE LET key == deriveKey(pw, salt.bytes, header.iter)
                ptBuf == AesGcmDecrypt(key, iv.bytes, ct.bytes)
            IN IF ~ptBuf.ok
               THEN Throw(ptBuf.message) @@ [work |-> {"deriveKey", "decrypt"}]
               ELSE [ok |-> TRUE,
                     kind |-> IF "kind" \in DOMAIN header /\ header.kind = "text"
                              THEN "text" ELSE "file",
                     header |-> header,
                     payload |-> IF "kind" \in DOMAIN header /\ header.kind = "text"
                                 THEN utf8Decode(ptBuf.bytes) ELSE ptBuf.bytes,
                     fingerprint |-> sha256Hex(ct.bytes),
                     work |-> {"deriveKey", "decrypt", "digest"}]
DecryptBody(parts, header, pw) ==
    LET salt == HeaderBytes(header, "salt")
        iv == HeaderBytes(header, "iv")
        ct == fromB64Url(parts[3])
    IN IF ~salt.ok THEN Throw(salt.message) @@ [work |-> {}]
       ELSE IF ~iv.ok THEN Throw(iv.message) @@ [work |-> {}]
       ELSE IF ~ct.ok THEN Throw(ct.message) @@ [work |-> {}]
       ELSE IF ~("iter" \in DOMAIN header /\ header.iter \in Nat \ {0})
            THEN Throw("OperationError") @@ [work |-> {"deriveKey"}]
       ELSE LET key == deriveKey(pw, salt.bytes, header.iter)
                ptBuf == AesGcmDecrypt(key, iv.bytes, ct.bytes)
            IN IF ~ptBuf.ok
               THEN Throw("Wrong key or corrupted token.")
                    @@ [work |-> {"deriveKey", "decrypt"}]
               ELSE [ok |-> TRUE,
                     kind |-> IF "kind" \in DOMAIN header /\ header.kind = "text"
                              THEN "text" ELSE "file",
                     header |-> header,
                     payload |-> IF "kind" \in DOMAIN header /\ header.kind = "text"
                                 THEN utf8Decode(ptBuf.bytes) ELSE ptBuf.bytes,
                     fingerprint |-> sha256Hex(ct.bytes),
                     work |-> {"deriveKey", "decrypt", "digest"}]

decryptToken(parts, pw) ==
    IF ~assertWebCrypto.ok THEN assertWebCrypto @@ [work |-> {}]
    ELSE IF ~HasPrefix(parts) THEN Throw("Invalid token (missing PASCO1 header).") @@ [work |-> {}]
    ELSE IF Len(parts) # 3 THEN Throw("Invalid token format.") @@ [work |-> {}]
    ELSE LET h == unpackHeader(parts[2])
         IN IF ~h.ok THEN Throw(h.message) @@ [work |-> {}]
            ELSE IF ~("v" \in DOMAIN h.header /\ h.header.v = 1)
                 THEN Throw("Unsupported token version.") @@ [work |-> {}]
            ELSE IF ~("alg" \in DOMAIN h.header /\ h.header.alg = "AES-256-GCM")
                 THEN Throw("Unsupported algorithm.") @@ [work |-> {}]
            ELSE IF ~("kdf" \in DOMAIN h.header /\ h.header.kdf = "PBKDF2-SHA256")
                 THEN Throw("Unsupported KDF.") @@ [work |-> {}]
            ELSE DecryptBody(parts, h.header, pw)

\* two faulty variants of fingerprintFromToken: one digests the ciphertext
\* without its tag, the other digests the header's note along with it
fingerprintOfBody(parts) ==
    IF ~HasPrefix(parts) THEN Throw("Invalid token format (missing PASCO1 header).")
    ELSE IF Len(parts) # 3 THEN Throw("Invalid token format.")
    ELSE LET ct == fromB64Url(parts[3])
         IN IF ~ct.ok THEN Throw(ct.message)
            ELSE IF Len(ct.bytes) < TagLen THEN [ok |-> TRUE, fingerprint |-> <<>>]
            ELSE [ok |-> TRUE,
                  fingerprint |-> sha256Hex(SubSeq(ct.bytes, 1, Len(ct.bytes) - TagLen))]

fingerprintWithHeader(parts) ==
    IF ~HasPrefix(parts) THEN Throw("Invalid token format (missing PASCO1 header).")
    ELSE IF Len(parts) # 3 THEN Throw("Invalid token format.")
    ELSE LET ct == fromB64Url(parts[3])
             h == unpackHeader(parts[2])
             note == IF h.ok /\ "note" \in DOMAIN h.header THEN h.header.note ELSE <<>>
         IN IF ~ct.ok THEN Throw(ct.message)
            ELSE [ok |-> TRUE, fingerprint |-> sha256Hex(ct.bytes \o note)]

\* a third faulty variant digests whatever it is given
fingerprintFromTokenLenient(parts) ==
    LET ct == IF Len(parts) >= 3 THEN fromB64Url(parts[3]) ELSE Throw("none")
    IN [ok |-> TRUE, fingerprint |-> sha256Hex(IF ct.ok THEN ct.bytes ELSE <<>>)]

fingerprintFromToken(parts) ==
    IF ~assertWebCrypto.ok THEN assertWebCrypto
    ELSE IF ~HasPrefix(parts) THEN Throw("Invalid token format (missing PASCO1 header).")
    ELSE IF Len(parts) # 3 THEN Throw("Invalid token format.")
    ELSE LET ct == fromB64Url(parts[3])
         IN IF ~ct.ok THEN Throw(ct.message)
            ELSE [ok |-> TRUE, fingerprint |-> sha256Hex(ct.bytes)]

(***************************************************************************)
(* Inputs of the model                                                     *)
(***************************************************************************)
PwGood == << 99, 104 >>
PwBad == << 119, 104 >>
PwBlank == << 32 >>
Passwords == {PwGood, PwBad}

Salt1 == [i \in 1..SaltLen |-> 17]
Salt2 == [i \in 1..SaltLen |-> 34]
Iv1 == [i \in 1..IvLen |-> 3]
Iv2 == [i \in 1..IvLen |-> 5]
Salts == {Salt1, Salt2}
IVs == {Iv1, Iv2}
Clock == {"2026-01-01T00:00:00.000Z"}

TextHi == << 104, 105 >>
FileBin == [name |-> "a.bin", type |-> "", size |-> 2, bytes |-> << 0, 255 >>]
NoteBob == << 32, 98, 111, 98 >>

\* what crypto.getRandomValues hands the page for (salt, iv); the engine's
\* callers below draw from all of Salts and IVs
PageRandom == {<< Salt1, Iv1 >>}

\* tokens the user holds from elsewhere and can paste into the decrypt box
TokA == EncryptedText(TextHi, [password |-> PwGood, note |-> <<>>], Salt1, Iv1,
                    "2026-01-01T00:00:00.000Z").token
TokB == EncryptedFile(FileBin, [password |-> PwGood, note |-> <<>>], Salt1, Iv1,
                    "2026-01-01T00:00:00.000Z").token
\* TokA with its header's note rewritten: another header, the same ciphertext
TokANote == << "PASCO1", [json |-> TokA[2].json @@ [note |-> NoteBob]], TokA[3] >>
\* structurally broken strings
TokNoPrefix == << "PASCO2", TokA[2], TokA[3] >>
TokTwoParts == << "PASCO1", TokA[2] >>
TokBadHeader == << "PASCO1", [garbage |-> "not json"], TokA[3] >>
TokBadCipher == << "PASCO1", TokA[2], << "Q" >> >>
EmptyString == <<>>

Vault == {TokA, TokB, TokANote, TokNoPrefix, TokTwoParts, TokBadHeader, TokBadCipher}

(***************************************************************************)
(* The attempts map (src/pages/CryptoLab.tsx)                              *)
(*                                                                         *)
(* localStorage is taken to be available: getItem and setItem do not       *)
(* throw, and the stored text is what saveAttemptsMap wrote.               *)
(***************************************************************************)
EmptyMap == <<>>

\* attemptsMap[fp] ?? 0
Used(map, f) == IF f \in DOMAIN map THEN map[f] ELSE 0

\* attemptsMap[fp] = n
Put(map, f, n) == [x \in DOMAIN map \cup {f} |-> IF x = f THEN n ELSE map[x]]

\* JSON.parse(localStorage.getItem(ATTEMPTS_KEY)) || {}
loadAttemptsMap == attempts

\* localStorage.setItem(ATTEMPTS_KEY, JSON.stringify(map)): the whole map is
\* replaced by the caller's copy
saveAttemptsMap(map) == attempts' = map

\* line 335: if (used >= maxAttempts); IsLockedStrict is the faulty variant
\* that lets an attempt through at exactly maxAttempts
IsLockedStrict(used) == used > maxAttempts
IsLocked(used) == used >= maxAttempts

\* line 396: const next = used + 1; NextCountTwice is the faulty variant that
\* charges a failure twice, NextCountWrapping the one that starts again at 0
\* after maxAttempts
NextCountWrapping(used) == (used + 1) % (maxAttempts + 1)
NextCountTwice(used) == used + 2
NextCount(used) == used + 1

\* line 369: attemptsMap[res.fingerprint] = 0; ClearedNot is the faulty variant
\* that leaves the entry as it was
ClearedNot(map, f) == map
Cleared(map, f) == Put(map, f, 0)

RECURSIVE Total(_)
Total(map) ==
    IF DOMAIN map = {} THEN 0
    ELSE LET f == CHOOSE x \in DOMAIN map : TRUE
         IN map[f] + Total([x \in DOMAIN map \ {f} |-> map[x]])

Unknown == << "u", "n", "k", "n", "o", "w", "n" >>
NoToast == [level |-> "none", message |-> "", left |-> -1]
Toast(level, message) == [level |-> level, message |-> message, left |-> -1]
Quiet(t) == toast' = [toast EXCEPT ![t] = NoToast]
\* the three toasts of the lockout: lines 336, 401 and 402
LockedToast ==
    Toast("error", "Locked: too many wrong attempts for this token on this device.")
WrongKeyLockedToast ==
    Toast("error", "Wrong key. Locked (5/5 attempts used on this device).")
AttemptsLeftToast(left) ==
    [level |-> "error", message |-> "Wrong key. Attempts left: ", left |-> left]
NoResult == [ok |-> FALSE, message |-> "", work |-> {}]
Nothing == [kind |-> "none"]

\* the strings that can be in the decrypt box: pasted from the vault, or copied
\* from the encrypt panel of a tab on this device
DecryptInputs == Vault \cup {encryptedToken[u] : u \in Tabs} \cup {EmptyString}

(***************************************************************************)
(* runDecrypt, step by step; each await is a point where other tabs run    *)
(***************************************************************************)
DecLocals == << token, password, res, attemptsMap, fp >>
EncVars == << encpc, encIn, encBusy, encryptedToken >>

\* the locals of an invocation are gone when it returns
DropLocals(t) ==
    /\ token' = [token EXCEPT ![t] = EmptyString]
    /\ password' = [password EXCEPT ![t] = <<>>]
    /\ res' = [res EXCEPT ![t] = NoResult]
    /\ attemptsMap' = [attemptsMap EXCEPT ![t] = EmptyMap]
    /\ fp' = [fp EXCEPT ![t] = Unknown]

\* finally { setDecBusy(false) }
DecFinallyStuck(t) ==
    /\ decBusy' = decBusy
    /\ pc' = [pc EXCEPT ![t] = "idle"]
    /\ DropLocals(t)
DecFinally(t) ==
    /\ decBusy' = [decBusy EXCEPT ![t] = FALSE]
    /\ pc' = [pc EXCEPT ![t] = "idle"]
    /\ DropLocals(t)

\* lines 315-326: the guards, then the state is cleared and the call is made
RunDecrypt(t, tok, pw) ==
    /\ pc[t] = "idle" /\ ~decBusy[t]
    /\ IF tok = EmptyString
       THEN /\ toast' = [toast EXCEPT ![t] = Toast("error", "Paste an encrypted token first")]
            /\ UNCHANGED << pc, decBusy, decrypted, DecLocals >>
       ELSE IF trim(pw) = <<>>
       THEN /\ toast' = [toast EXCEPT ![t] = Toast("error", "Enter the secret key")]
            /\ UNCHANGED << pc, decBusy, decrypted, DecLocals >>
       ELSE /\ decBusy' = [decBusy EXCEPT ![t] = TRUE]
            /\ decrypted' = [decrypted EXCEPT ![t] = Nothing]
            /\ token' = [token EXCEPT ![t] = tok]
            /\ password' = [password EXCEPT ![t] = pw]
            /\ pc' = [pc EXCEPT ![t] = "decryptToken"]
            /\ Quiet(t)
            /\ UNCHANGED << res, attemptsMap, fp >>
    /\ UNCHANGED << attempts, EncVars, calls >>

\* line 330: await decryptToken(token, decPassword) settles
DecryptTokenSettles(t) ==
    /\ pc[t] = "decryptToken"
    /\ res' = [res EXCEPT ![t] = decryptToken(token[t], password[t])]
    /\ pc' = [pc EXCEPT ![t] = IF decryptToken(token[t], password[t]).ok
                               THEN "try" ELSE "catch"]
    /\ Quiet(t)
    /\ UNCHANGED << attempts, token, password, attemptsMap, fp, decBusy, decrypted,
                    EncVars, calls >>

\* lines 332-353: the protection check, made once the plaintext is in hand
LockCheck(t) ==
    /\ pc[t] = "try"
    /\ LET map == loadAttemptsMap
           used == Used(map, res[t].fingerprint)
       IN IF IsLocked(used)
          THEN /\ toast' = [toast EXCEPT ![t] = LockedToast]
               /\ DecFinally(t)
          ELSE /\ attemptsMap' = [attemptsMap EXCEPT ![t] = map]
               /\ pc' = [pc EXCEPT ![t] = "timeout"]
               /\ Quiet(t)
               /\ UNCHANGED << decBusy, token, password, res, fp >>
    /\ UNCHANGED << attempts, decrypted, EncVars, calls >>

\* lines 353-382 and finally: after the 1700 ms timer the plaintext is shown and
\* the copy of the map read by LockCheck is written back with this
\* fingerprint's entry set to 0
Release(t) ==
    /\ pc[t] = "timeout"
    /\ decrypted' = [decrypted EXCEPT ![t] =
            IF res[t].kind = "text"
            THEN [kind |-> "text", text |-> res[t].payload]
            ELSE [kind |-> "file", bytes |-> res[t].payload,
                  filename |-> IF "filename" \in DOMAIN res[t].header
                               THEN res[t].header.filename ELSE "decrypted.bin"]]
    /\ toast' = [toast EXCEPT ![t] = Toast("success",
            IF res[t].kind = "text" THEN "Decrypted successfully"
            ELSE "File decrypted successfully")]
    /\ saveAttemptsMap(Cleared(attemptsMap[t], res[t].fingerprint))
    /\ DecFinally(t)
    /\ UNCHANGED << EncVars, calls >>

\* lines 383-391: catch; await fingerprintFromToken(token) settles
CatchFingerprint(t) ==
    /\ pc[t] = "catch"
    /\ fp' = [fp EXCEPT ![t] = IF fingerprintFromToken(token[t]).ok
                               THEN fingerprintFromToken(token[t]).fingerprint
                               ELSE Unknown]
    /\ pc' = [pc EXCEPT ![t] = "caught"]
    /\ Quiet(t)
    /\ UNCHANGED << attempts, token, password, res, attemptsMap, decBusy, decrypted,
                    EncVars, calls >>

\* lines 393-395: the map is read ...  The read and the write that follows are
\* two accesses to a store shared with the other tabs' processes, and nothing
\* in the code makes the pair atomic: another tab's access can fall between
ChargeLoad(t) ==
    /\ pc[t] = "caught" /\ fp[t] # Unknown
    /\ attemptsMap' = [attemptsMap EXCEPT ![t] = loadAttemptsMap]
    /\ pc' = [pc EXCEPT ![t] = "charge"]
    /\ Quiet(t)
    /\ UNCHANGED << attempts, token, password, res, fp, decBusy, decrypted,
                    EncVars, calls >>

\* lines 396-402 and finally: ... and written back with this fingerprint's
\* entry raised by one
ChargeSave(t) ==
    /\ pc[t] = "charge"
    /\ LET used == Used(attemptsMap[t], fp[t])
           next == NextCount(used)
           left == IF maxAttempts - next > 0 THEN maxAttempts - next ELSE 0
       IN /\ saveAttemptsMap(Put(attemptsMap[t], fp[t], next))
          /\ toast' = [toast EXCEPT ![t] =
                IF left <= 0 THEN WrongKeyLockedToast ELSE AttemptsLeftToast(left)]
    /\ DecFinally(t)
    /\ UNCHANGED << decrypted, EncVars, calls >>

\* lines 403-405 and finally: no fingerprint, the engine's message is shown
ReportError(t) ==
    /\ pc[t] = "caught" /\ fp[t] = Unknown
    /\ toast' = [toast EXCEPT ![t] = Toast("error", res[t].message)]
    /\ DecFinally(t)
    /\ UNCHANGED << attempts, decrypted, EncVars, calls >>

(***************************************************************************)
(* runEncryptText / runEncryptFile                                         *)
(***************************************************************************)
NoInput == [kind |-> "none"]
DecVars == << pc, token, password, res, attemptsMap, fp, decBusy, decrypted >>

\* lines 207-214: the guards, then the state is cleared and the call is made
RunEncryptText(t, text, pw, note) ==
    /\ encpc[t] = "idle" /\ ~encBusy[t]
    /\ IF trim(text) = <<>>
       THEN /\ toast' = [toast EXCEPT ![t] = Toast("error", "Enter text to encrypt")]
            /\ UNCHANGED EncVars
       ELSE IF trim(pw) = <<>>
       THEN /\ toast' = [toast EXCEPT ![t] = Toast("error", "Enter a secret key")]
            /\ UNCHANGED EncVars
       ELSE /\ encBusy' = [encBusy EXCEPT ![t] = TRUE]
            /\ encryptedToken' = [encryptedToken EXCEPT ![t] = EmptyString]
            /\ encIn' = [encIn EXCEPT ![t] =
                    [kind |-> "text", text |-> text, password |-> pw, note |-> note]]
            /\ encpc' = [encpc EXCEPT ![t] = "text"]
            /\ Quiet(t)
    /\ UNCHANGED << attempts, DecVars, calls >>

\* lines 216-249: encryptText settles, the 1600 ms timer fires, the token is
\* shown; if encryptText throws, its message is shown and no token
EncryptTextDone(t, salt, iv, now) ==
    /\ encpc[t] = "text"
    /\ LET out == encryptText(encIn[t].text,
                              [password |-> encIn[t].password, note |-> encIn[t].note],
                              salt, iv, now)
       IN IF out.ok
          THEN /\ encryptedToken' = [encryptedToken EXCEPT ![t] = out.token]
               /\ toast' = [toast EXCEPT ![t] = Toast("success", "Encrypted successfully")]
          ELSE /\ encryptedToken' = encryptedToken
               /\ toast' = [toast EXCEPT ![t] = Toast("error", out.message)]
    /\ encBusy' = [encBusy EXCEPT ![t] = FALSE]
    /\ encIn' = [encIn EXCEPT ![t] = NoInput]
    /\ encpc' = [encpc EXCEPT ![t] = "idle"]
    /\ UNCHANGED << attempts, DecVars, calls >>

\* lines 252-259; the button is disabled while no file is selected
RunEncryptFile(t, file, pw, note) ==
    /\ encpc[t] = "idle" /\ ~encBusy[t]
    /\ IF trim(pw) = <<>>
       THEN /\ toast' = [toast EXCEPT ![t] = Toast("error", "Enter a secret key")]
            /\ UNCHANGED EncVars
       ELSE /\ encBusy' = [encBusy EXCEPT ![t] = TRUE]
            /\ encryptedToken' = [encryptedToken EXCEPT ![t] = EmptyString]
            /\ encIn' = [encIn EXCEPT ![t] =
                    [kind |-> "file", file |-> file, password |-> pw, note |-> note]]
            /\ encpc' = [encpc EXCEPT ![t] = "file"]
            /\ Quiet(t)
    /\ UNCHANGED << attempts, DecVars, calls >>

\* lines 261-296
EncryptFileDone(t, salt, iv, now) ==
    /\ encpc[t] = "file"
    /\ LET out == encryptFile(encIn[t].file,
                              [password |-> encIn[t].password, note |-> encIn[t].note],
                              salt, iv, now)
       IN IF out.ok
          THEN /\ encryptedToken' = [encryptedToken EXCEPT ![t] = out.token]
               /\ toast' = [toast EXCEPT ![t] =
                                Toast("success", "File encrypted successfully")]
          ELSE /\ encryptedToken' = encryptedToken
               /\ toast' = [toast EXCEPT ![t] = Toast("error", out.message)]
    /\ encBusy' = [encBusy EXCEPT ![t] = FALSE]
    /\ encIn' = [encIn EXCEPT ![t] = NoInput]
    /\ encpc' = [encpc EXCEPT ![t] = "idle"]
    /\ UNCHANGED << attempts, DecVars, calls >>

(***************************************************************************)
(* History variables.  streak.n is the number of decrypt attempts in a row *)
(* that failed authentication on fingerprint streak.fp; ended says that    *)
(* the latest attempt on it was of another kind (released, refused, or     *)
(* rejected for its header), which closes the run.  expected.map counts    *)
(* every recorded failure once, on top of expected.initial, the map at the *)
(* start; released says that some attempt has been released since.         *)
(***************************************************************************)
NoStreak == [fp |-> Unknown, n |-> 0, ended |-> TRUE]
AuthMessage == "Wrong key or corrupted token."

Closes(f) ==
    [fp |-> f, n |-> IF streak.fp = f /\ ~streak.ended THEN streak.n ELSE 0, ended |-> TRUE]

StreakStep(t) ==
    streak' =
        IF pc[t] = "charge" /\ pc'[t] = "idle"
        THEN IF res[t].message = AuthMessage
             THEN [fp |-> fp[t],
                   n |-> IF streak.fp = fp[t] /\ ~streak.ended THEN streak.n + 1 ELSE 1,
                   ended |-> FALSE]
             ELSE Closes(fp[t])
        ELSE IF pc[t] \in {"try", "timeout"} /\ pc'[t] = "idle"
        THEN Closes(res[t].fingerprint)
        ELSE IF pc[t] = "caught" /\ pc'[t] = "idle"
        THEN NoStreak
        ELSE streak

ExpectedStep(t) ==
    expected' =
        IF pc[t] = "charge" /\ pc'[t] = "idle"
        THEN [expected EXCEPT !.map = Put(@, fp[t], Used(@, fp[t]) + 1)]
        ELSE IF pc[t] = "timeout" /\ pc'[t] = "idle"
        THEN [expected EXCEPT !.released = TRUE]
        ELSE expected

(***************************************************************************)
(* The page on one device                                                  *)
(***************************************************************************)
\* no invocation of the tab is in flight, so no history is captured
NoClosure == [dec |-> <<>>, decId |-> 0, enc |-> <<>>, encId |-> 0]

NoCalls ==
    [enc |-> NoInput, dec |-> NoInput, fpt |-> NoInput, fptPrev |-> NoInput,
     earlier |-> <<>>]

PageInit ==
    /\ pc = [t \in Tabs |-> "idle"]
    /\ token = [t \in Tabs |-> EmptyString]
    /\ password = [t \in Tabs |-> <<>>]
    /\ res = [t \in Tabs |-> NoResult]
    /\ attemptsMap = [t \in Tabs |-> EmptyMap]
    /\ fp = [t \in Tabs |-> Unknown]
    /\ decBusy = [t \in Tabs |-> FALSE]
    /\ decrypted = [t \in Tabs |-> Nothing]
    /\ toast = [t \in Tabs |-> NoToast]
    /\ encpc = [t \in Tabs |-> "idle"]
    /\ encIn = [t \in Tabs |-> NoInput]
    /\ encBusy = [t \in Tabs |-> FALSE]
    /\ encryptedToken = [t \in Tabs |-> EmptyString]
    /\ runs = 0
    /\ streak = NoStreak
    /\ calls = NoCalls
    /\ history = [t \in Tabs |-> <<>>]
    /\ historyStore = <<>>
    /\ closure = [t \in Tabs |-> NoClosure]

\* a handler is invoked from the page
Start(t) ==
    \/ \E tok \in DecryptInputs, pw \in Passwords \cup {PwBlank} : RunDecrypt(t, tok, pw)
    \/ RunEncryptText(t, TextHi, PwGood, <<>>)
    \/ RunEncryptFile(t, FileBin, PwGood, <<>>)

\* an invocation in flight goes on
Step(t) ==
    \/ DecryptTokenSettles(t)
    \/ LockCheck(t)
    \/ Release(t)
    \/ CatchFingerprint(t)
    \/ ChargeLoad(t)
    \/ ChargeSave(t)
    \/ ReportError(t)
    \/ \E r \in PageRandom, now \in Clock : EncryptTextDone(t, r[1], r[2], now)
    \/ \E r \in PageRandom, now \in Clock : EncryptFileDone(t, r[1], r[2], now)

\* the devices the token can be carried to; the page is followed on "A", and
\* nothing is stored on the others
Devices == {"A", "B"}
NoReload == [kind |-> "none"]
OneDevice ==
    /\ device = "A"
    /\ stores = [d \in Devices |-> EmptyMap]
    /\ reloaded = NoReload

\* one tab, a fresh device
Init ==
    /\ PageInit
    /\ OneDevice
    /\ subtle = TRUE
    /\ tried = {}
    /\ attempts = EmptyMap
    /\ expected = [initial |-> EmptyMap, map |-> EmptyMap, released |-> FALSE]

Next ==
    \/ Total(attempts) < MaxCount /\ Start(1)
          /\ UNCHANGED << runs, streak, expected, DeviceVars, HostVars >>
    \/ Step(1) /\ StreakStep(1) /\ UNCHANGED << runs, expected, DeviceVars, HostVars >>

Spec == Init /\ [][Next]_vars

\* several tabs on a device whose map earlier sessions have left behind
FpA == sha256Hex(fromB64Url(TokA[3]).bytes)
FpB == sha256Hex(fromB64Url(TokB[3]).bytes)
EarlierMaps == {EmptyMap} \cup {[f \in {FpA} |-> n] : n \in {4, maxAttempts}}

InitTabs ==
    /\ PageInit
    /\ OneDevice
    /\ subtle = TRUE
    /\ attempts \in EarlierMaps
    /\ tried = {<< device, f >> : f \in DOMAIN attempts}
    /\ expected = [initial |-> attempts, map |-> attempts, released |-> FALSE]

\* the handlers invoked in the concurrent session
StartTabs(t) ==
    \/ \E tok \in {TokA, TokB, TokNoPrefix}, pw \in Passwords : RunDecrypt(t, tok, pw)
    \/ RunEncryptText(t, TextHi, PwGood, <<>>)
    \/ RunEncryptFile(t, FileBin, PwGood, <<>>)

NextTabs ==
    \E t \in Tabs :
        \/ runs < MaxRuns /\ runs' = runs + 1 /\ StartTabs(t)
              /\ UNCHANGED << streak, expected, DeviceVars, HostVars >>
        \/ Step(t) /\ ExpectedStep(t) /\ UNCHANGED << runs, streak, DeviceVars, HostVars >>

SpecTabs == InitTabs /\ [][NextTabs]_vars

(***************************************************************************)
(* Properties of the lockout on one tab (Spec)                             *)
(***************************************************************************)
\* the fingerprint of the token of the attempt in flight in tab t
TokenFp(t) == fingerprintFromToken(token[t]).fingerprint

\* C1: on one device, after five decrypt attempts in a row with wrong passwords
\* on a token of one fingerprint, the next attempt, made with the correct
\* password, is refused as locked: no plaintext is released and the
\* fingerprint's counter is not reset
C1_LockedAfterFive ==
    [][\A t \in Tabs :
          (/\ pc[t] = "try" /\ pc'[t] # "try"
           /\ streak.fp = res[t].fingerprint /\ ~streak.ended
           /\ streak.n >= maxAttempts)
          => /\ pc'[t] = "idle"
             /\ toast'[t] = LockedToast
             /\ decrypted'[t] = Nothing
             /\ attempts' = attempts
             /\ Used(attempts', res[t].fingerprint) >= maxAttempts]_vars

\* five wrong passwords on TokA, then the correct one, refused
C1_Witness ==
    /\ pc[1] = "idle"
    /\ streak = [fp |-> FpA, n |-> maxAttempts, ended |-> TRUE]
    /\ toast[1] = LockedToast
    /\ decrypted[1] = Nothing
    /\ Used(attempts, FpA) = maxAttempts

\* C2: whenever the persisted counter of the token's fingerprint is at or
\* above 5 when a decrypt attempt starts, the attempt is refused before any
\* key derivation or AES-GCM decryption is done for it
C2_LockCheckBeforeCrypto ==
    \A t \in Tabs :
        (/\ pc[t] \in {"try", "catch"}
         /\ fingerprintFromToken(token[t]).ok
         /\ Used(attempts, TokenFp(t)) >= maxAttempts)
        => res[t].work \cap {"deriveKey", "decrypt"} = {}

\* C3: on a fingerprint whose counter has reached 5, an attempt ends in the
\* same locked outcome whether its password is correct (the attempt comes out
\* of decryptToken's try) or wrong (it comes out of the catch with an
\* authentication failure): the same toast, the same stored map
C3_LockedOutcomeSame ==
    [][\A t \in Tabs :
          (/\ \/ pc[t] = "try"
              \/ pc[t] = "charge" /\ res[t].message = AuthMessage
           /\ pc'[t] = "idle"
           /\ Used(attempts, TokenFp(t)) >= maxAttempts)
          => /\ toast'[t] = LockedToast
             /\ attempts' = attempts]_vars

\* C4: one decrypt attempt that fails AES-GCM authentication on a fingerprint
\* whose counter is c < 5 sets the counter to exactly c + 1 and nothing else,
\* ends without calling decryptToken again, and reports 5 - (c + 1) attempts
\* left, or the lock exactly when c + 1 = 5
C4_FailureChargesOnce ==
    [][\A t \in Tabs :
          /\ (/\ pc[t] = "charge" /\ pc'[t] # "charge"
              /\ res[t].message = AuthMessage
              /\ Used(attempts, fp[t]) < maxAttempts)
             => LET c == Used(attempts, fp[t])
                IN /\ attempts' = Put(attempts, fp[t], c + 1)
                   /\ pc'[t] = "idle" /\ ~decBusy'[t]
                   /\ toast'[t] = IF c + 1 = maxAttempts THEN WrongKeyLockedToast
                                  ELSE AttemptsLeftToast(maxAttempts - (c + 1))
          /\ pc[t] \in {"decryptToken", "catch", "caught"} => attempts' = attempts
          /\ pc'[t] = "decryptToken" => pc[t] \in {"idle", "decryptToken"}]_vars

\* the fifth wrong password in a row on TokA: the counter is 5, the lock is told
C4_Witness ==
    /\ pc[1] = "idle"
    /\ streak = [fp |-> FpA, n |-> maxAttempts, ended |-> FALSE]
    /\ toast[1] = WrongKeyLockedToast
    /\ Used(attempts, FpA) = maxAttempts

\* C5: a successful decrypt of a token whose fingerprint's counter is c,
\* 0 <= c < 5, is not refused, releases the plaintext and sets the counter to 0
C5_SuccessResets ==
    [][\A t \in Tabs :
          /\ (/\ pc[t] = "try" /\ pc'[t] # "try"
              /\ Used(attempts, res[t].fingerprint) < maxAttempts)
             => pc'[t] = "timeout" /\ attempts' = attempts
          /\ (pc[t] = "timeout" /\ pc'[t] # "timeout")
             => /\ pc'[t] = "idle"
                /\ decrypted'[t].kind = res[t].kind
                /\ res[t].kind = "text" => decrypted'[t].text = res[t].payload
                /\ res[t].kind = "file" => decrypted'[t].bytes = res[t].payload
                /\ toast'[t].level = "success"
                /\ attempts' = Put(attempts, res[t].fingerprint, 0)]_vars

\* four wrong passwords on TokA, then the correct one: the text is out and the
\* counter is back at 0
C5_Witness ==
    /\ pc[1] = "idle"
    /\ streak = [fp |-> FpA, n |-> 4, ended |-> TRUE]
    /\ toast[1] = Toast("success", "Decrypted successfully")
    /\ decrypted[1] = [kind |-> "text", text |-> TextHi]
    /\ attempts = [f \in {FpA} |-> 0]

\* C6: in every reachable state the persisted counter of every fingerprint is
\* between 0 and 5
C6_CounterInRange ==
    \A f \in DOMAIN attempts : attempts[f] \in 0..maxAttempts

(***************************************************************************)
(* Properties of the lockout with several tabs (SpecTabs)                  *)
(***************************************************************************)
Min(a, b) == IF a < b THEN a ELSE b

\* C7: under any interleaving of the tabs, a fingerprint's persisted counter
\* decreases only in the step that completes a successful decrypt of a token
\* with that fingerprint
C7_DecreaseOnlyByOwnSuccess ==
    [][\A f \in DOMAIN attempts :
          Used(attempts', f) < attempts[f]
          => \E t \in Tabs : /\ pc[t] = "timeout" /\ pc'[t] = "idle"
                             /\ res[t].fingerprint = f]_vars

\* C8: when the tabs' attempts are over and none was released, a fingerprint
\* that was open at the start, with counter c, and took N failures since,
\* has the counter min(5, c + N); expected.map holds c + N
C8_NoLostIncrement ==
    \A f \in DOMAIN expected.map :
        (/\ \A t \in Tabs : pc[t] = "idle"
         /\ ~expected.released
         /\ Used(expected.initial, f) < maxAttempts)
        => Used(attempts, f) = Min(maxAttempts, expected.map[f])

(***************************************************************************)
(* The engine called directly: encryptText, encryptFile, decryptToken and  *)
(* fingerprintFromToken applied to inputs drawn from the sets above, and   *)
(* to the token the latest encryption returned, as it is and rewritten.    *)
(* calls keeps the latest call of each export with its result; a new       *)
(* encryption starts a new round and forgets the calls on the old token.   *)
(* calls.earlier lists the encryptions before the latest one where they    *)
(* are compared with it (SpecFresh).                                       *)
(***************************************************************************)
\* the first character of the ciphertext segment replaced by another one
FlipCipher(tok) ==
    << tok[1], tok[2], [tok[3] EXCEPT ![1] = IF @ = "A" THEN "B" ELSE "A"] >>

\* the header's note rewritten, the ciphertext segment kept
Renote(tok) == << tok[1], [json |-> [note |-> NoteBob] @@ tok[2].json], tok[3] >>

Rewritings(tok) == {tok, Renote(tok), FlipCipher(tok), << "PASCO2", tok[2], tok[3] >>}

EngineTokens == IF calls.enc = NoInput THEN {} ELSE Rewritings(calls.enc.out.token)

CallEncryptText(text, opts, salt, iv, now) ==
    /\ calls' = [NoCalls EXCEPT !.enc =
            [fn |-> "encryptText", plain |-> text, password |-> opts.password,
             opts |-> opts, salt |-> salt, iv |-> iv,
             out |-> encryptText(text, opts, salt, iv, now)]]
    /\ UNCHANGED << attempts, DecVars, toast, EncVars, runs, streak, expected,
                    DeviceVars, HostVars >>

CallEncryptFile(file, opts, salt, iv, now) ==
    /\ calls' = [NoCalls EXCEPT !.enc =
            [fn |-> "encryptFile", plain |-> file, password |-> opts.password,
             opts |-> opts, salt |-> salt, iv |-> iv,
             out |-> encryptFile(file, opts, salt, iv, now)]]
    /\ UNCHANGED << attempts, DecVars, toast, EncVars, runs, streak, expected,
                    DeviceVars, HostVars >>

CallDecryptToken(tok, pw) ==
    /\ calls' = [calls EXCEPT !.dec =
            [fn |-> "decryptToken", token |-> tok, password |-> pw,
             out |-> decryptToken(tok, pw)]]
    /\ UNCHANGED << attempts, DecVars, toast, EncVars, runs, streak, expected,
                    DeviceVars, HostVars >>

\* the call before the latest one is kept too
CallFingerprintFromToken(tok) ==
    /\ calls' = [calls EXCEPT !.fptPrev = calls.fpt,
                              !.fpt = [fn |-> "fingerprintFromToken", token |-> tok,
                                       out |-> fingerprintFromToken(tok)]]
    /\ UNCHANGED << attempts, DecVars, toast, EncVars, runs, streak, expected,
                    DeviceVars, HostVars >>

NextEngine ==
    \/ \E pw \in Passwords, salt \in Salts, iv \in IVs, now \in Clock :
            \/ \E note \in {<<>>, NoteBob} :
                    CallEncryptText(TextHi, [password |-> pw, note |-> note], salt, iv, now)
            \/ CallEncryptFile(FileBin, [password |-> pw, note |-> <<>>], salt, iv, now)
    \/ \E tok \in EngineTokens, pw \in Passwords : CallDecryptToken(tok, pw)
    \/ \E tok \in EngineTokens : CallFingerprintFromToken(tok)

SpecEngine == Init /\ [][NextEngine]_vars

(***************************************************************************)
(* Properties of the fingerprint (SpecEngine)                              *)
(***************************************************************************)
\* C9: for the token an encryption returned, the fingerprint returned with
\* it, the fingerprint of a successful decryptToken of it and
\* fingerprintFromToken of it are equal; decryptToken with the password of
\* the encryption is successful
C9_FingerprintsAgree ==
    calls.enc # NoInput =>
        /\ (calls.dec # NoInput /\ calls.dec.token = calls.enc.out.token)
           => /\ calls.dec.password = calls.enc.password => calls.dec.out.ok
              /\ calls.dec.out.ok
                 => calls.dec.out.fingerprint = calls.enc.out.fingerprint
        /\ (calls.fpt # NoInput /\ calls.fpt.token = calls.enc.out.token)
           => /\ calls.fpt.out.ok
              /\ calls.fpt.out.fingerprint = calls.enc.out.fingerprint

\* a file was encrypted, its token decrypted and fingerprinted
C9_Witness ==
    /\ calls.enc # NoInput /\ calls.dec # NoInput /\ calls.fpt # NoInput
    /\ calls.enc.fn = "encryptFile"
    /\ calls.dec.token = calls.enc.out.token /\ calls.dec.out.ok
    /\ calls.fpt.token = calls.enc.out.token
    /\ calls.fpt.out.fingerprint = calls.dec.out.fingerprint

\* C10: the fingerprint is a function of the ciphertext segment only: two
\* PASCO1 tokens with the same ciphertext segment have the same fingerprint,
\* whatever their headers, and a decryptToken that succeeds on one of them,
\* with whatever password, returns that fingerprint too
C10_FingerprintOfCiphertextOnly ==
    /\ (/\ calls.fpt # NoInput /\ calls.fptPrev # NoInput
        /\ HasPrefix(calls.fpt.token) /\ HasPrefix(calls.fptPrev.token)
        /\ calls.fpt.token[3] = calls.fptPrev.token[3])
       => calls.fpt.out = calls.fptPrev.out
    /\ (/\ calls.fpt # NoInput /\ calls.dec # NoInput
        /\ HasPrefix(calls.fpt.token) /\ calls.dec.out.ok
        /\ calls.fpt.token[3] = calls.dec.token[3])
       => /\ calls.fpt.out.ok
          /\ calls.fpt.out.fingerprint = calls.dec.out.fingerprint

\* a token and the same token under a rewritten header were fingerprinted
C10_Witness ==
    /\ calls.fpt # NoInput /\ calls.fptPrev # NoInput
    /\ HasPrefix(calls.fpt.token) /\ HasPrefix(calls.fptPrev.token)
    /\ calls.fpt.token[2] # calls.fptPrev.token[2]
    /\ calls.fpt.token[3] = calls.fptPrev.token[3]
    /\ calls.fpt.out.ok
    /\ calls.fpt.out.fingerprint = calls.fptPrev.out.fingerprint

(***************************************************************************)
(* The token codec called directly (SpecCodec): an encryption, then        *)
(* decryptToken of its token as it is and rewritten in one place, with the *)
(* password of the encryption or another one.                              *)
(***************************************************************************)
\* text that starts with U+FEFF, text of one character, passwords that hold a
\* lone surrogate and U+FFFD
TextBom == << ByteOrderMark, 104, 105 >>
TextOne == << 104 >>
PwSurrogate == << 99, 55296 >>
PwReplaced == << 99, ReplacementChar >>
CodecPasswords == {PwGood, PwBad, PwSurrogate, PwReplaced}

\* opts.iterations as a caller can pass it
IterationRequests ==
    {0, 1, MinIterations - 1, MinIterations, MinIterations + 1, TextIterations,
     MaxIterations - 1, MaxIterations, MaxIterations + 1, 2 * MaxIterations}

\* the encryptions of SpecCodec
CodecCases ==
    {[fn |-> "encryptText", plain |-> t, opts |-> [password |-> PwGood]] :
        t \in {TextHi, TextBom, TextOne}}
    \cup {[fn |-> "encryptText", plain |-> TextHi,
           opts |-> [password |-> PwSurrogate, note |-> NoteBob]]}
    \cup {[fn |-> "encryptFile", plain |-> FileBin, opts |-> [password |-> PwGood]]}
    \cup {[fn |-> f, plain |-> IF f = "encryptText" THEN TextHi ELSE FileBin,
           opts |-> [password |-> PwGood, iterations |-> n]] :
        f \in {"encryptText", "encryptFile"}, n \in IterationRequests}

\* a header field set to another value, or added
WithField(tok, field, value) ==
    << tok[1], [json |-> [x \in {field} |-> value] @@ tok[2].json], tok[3] >>

GarbageHeader == [garbage |-> "not json"]

\* tokens that break one of decryptToken's checks, or two of them at once
Malformed(tok) ==
    { << "PASCO2", tok[2], tok[3] >>, << "PASCO1" >>, << "PASCO2", tok[2] >>,
      << "PASCO1", tok[2] >>, << "PASCO1", tok[2], tok[3], tok[3] >>,
      << "PASCO1", GarbageHeader, tok[3], tok[3] >>,
      << "PASCO1", GarbageHeader, tok[3] >>,
      WithField(tok, "v", 2),
      WithField(WithField(tok, "v", 2), "alg", "AES-128-GCM"),
      WithField(WithField(tok, "v", 2), "kdf", "scrypt"),
      WithField(tok, "alg", "AES-128-GCM"),
      WithField(WithField(tok, "alg", "AES-128-GCM"), "kdf", "scrypt"),
      WithField(tok, "kdf", "scrypt") }

\* the next character of the base64url alphabet's letters and digits
NextChar(c) == IF c \in {"-", "_"} THEN "A" ELSE B64Std[((B64Index(c) + 1) % 62) + 1]

\* the ciphertext segment with its i-th character changed
FlipAt(tok, i) == << tok[1], tok[2], [tok[3] EXCEPT ![i] = NextChar(@)] >>

\* the ciphertext segment with a character outside the alphabet in it
BadChar(tok) == << tok[1], tok[2], [tok[3] EXCEPT ![1] = "!"] >>

AlteredCipher(tok) == {FlipAt(tok, i) : i \in 1..Len(tok[3])} \cup {BadChar(tok)}

\* fields of the header that are no input of key derivation or decryption
AlteredHeader(tok) ==
    { WithField(tok, "kind", IF tok[2].json.kind = "text" THEN "file" ELSE "text"),
      WithField(tok, "filename", "b.txt"), WithField(tok, "mime", "text/plain"),
      WithField(tok, "size", 3), WithField(tok, "note", NoteBob),
      WithField(tok, "createdAt", "1999-12-31T00:00:00.000Z") }

\* the header's iteration count rewritten
AlteredIter(tok) == {WithField(tok, "iter", n) : n \in {1, MinIterations - 1, 2 * MaxIterations}}

\* the calls of decryptToken that follow an encryption: << token, password >>
CodecCalls ==
    IF calls.enc = NoInput THEN {}
    ELSE LET tok == calls.enc.out.token
             pw == calls.enc.password
         IN {<< tok, p >> : p \in CodecPasswords}
            \cup {<< x, pw >> : x \in Malformed(tok) \cup AlteredCipher(tok)
                                      \cup AlteredHeader(tok) \cup AlteredIter(tok)}

NextCodec ==
    \/ \E c \in CodecCases, r \in PageRandom, now \in Clock :
            \/ c.fn = "encryptText" /\ CallEncryptText(c.plain, c.opts, r[1], r[2], now)
            \/ c.fn = "encryptFile" /\ CallEncryptFile(c.plain, c.opts, r[1], r[2], now)
    \/ \E c \in CodecCalls : CallDecryptToken(c[1], c[2])

SpecCodec == Init /\ [][NextCodec]_vars

\* the plaintext bytes of the latest encryption
PlainBytes ==
    IF calls.enc.fn = "encryptText" THEN utf8Encode(calls.enc.plain)
    ELSE calls.enc.plain.bytes

\* C11: decryptToken of a token that lacks the PASCO1. prefix, has not exactly
\* three segments, has a header that does not parse, or a header whose v, alg
\* or kdf is not the supported one, throws before any key derivation or
\* AES-GCM call, and the error is that of the first of these checks, in this
\* order, that the token fails
C11_FailsClosedInOrder ==
    (calls.dec # NoInput) =>
        LET tok == calls.dec.token
            out == calls.dec.out
            h == tok[2]
            first ==
                IF Len(tok) < 2 \/ tok[1] # "PASCO1"
                THEN "Invalid token (missing PASCO1 header)."
                ELSE IF Len(tok) # 3 THEN "Invalid token format."
                ELSE IF "json" \notin DOMAIN h THEN "SyntaxError"
                ELSE IF "v" \notin DOMAIN h.json \/ h.json.v # 1
                     THEN "Unsupported token version."
                ELSE IF "alg" \notin DOMAIN h.json \/ h.json.alg # "AES-256-GCM"
                     THEN "Unsupported algorithm."
                ELSE IF "kdf" \notin DOMAIN h.json \/ h.json.kdf # "PBKDF2-SHA256"
                     THEN "Unsupported KDF."
                ELSE "none"
        IN first # "none" => ~out.ok /\ out.work = {} /\ out.message = first

\* a token with an unsupported version and an unsupported algorithm was
\* refused for its version
C11_Witness ==
    /\ calls.dec # NoInput
    /\ Len(calls.dec.token) = 3
    /\ "json" \in DOMAIN calls.dec.token[2]
    /\ calls.dec.token[2].json.v = 2
    /\ calls.dec.token[2].json.alg = "AES-128-GCM"
    /\ ~calls.dec.out.ok /\ calls.dec.out.work = {}
    /\ calls.dec.out.message = "Unsupported token version."

\* C12: decryptToken, with the password of the encryption, of the token that
\* encryptText or encryptFile produced returns the original payload (the text,
\* or the file's bytes) with the original kind and a header equal to the one
\* returned at encryption
C12_RoundTrip ==
    (/\ calls.enc # NoInput /\ calls.dec # NoInput
     /\ calls.dec.token = calls.enc.out.token
     /\ calls.dec.password = calls.enc.password)
    => /\ calls.dec.out.ok
       /\ calls.dec.out.header = calls.enc.out.header
       /\ IF calls.enc.fn = "encryptText"
          THEN calls.dec.out.kind = "text" /\ calls.dec.out.payload = calls.enc.plain
          ELSE calls.dec.out.kind = "file" /\ calls.dec.out.payload = calls.enc.plain.bytes

CipherChanged ==
    /\ calls.enc # NoInput /\ calls.dec # NoInput
    /\ Len(calls.dec.token) = 3
    /\ calls.dec.token[1] = calls.enc.out.token[1]
    /\ calls.dec.token[2] = calls.enc.out.token[2]
    /\ calls.dec.token[3] # calls.enc.out.token[3]
    /\ calls.dec.password = calls.enc.password

CryptoFields == {"v", "alg", "kdf", "iter", "salt", "iv"}

\* the latest decryptToken was given the token of the encryption with another
\* header that agrees with the original one on CryptoFields, and the
\* encryption's password
HeaderChanged ==
    /\ calls.enc # NoInput /\ calls.dec # NoInput
    /\ Len(calls.dec.token) = 3
    /\ calls.dec.token[1] = calls.enc.out.token[1]
    /\ calls.dec.token[3] = calls.enc.out.token[3]
    /\ calls.dec.token[2] # calls.enc.out.token[2]
    /\ "json" \in DOMAIN calls.dec.token[2]
    /\ \A f \in CryptoFields :
          /\ f \in DOMAIN calls.dec.token[2].json
          /\ calls.dec.token[2].json[f] = calls.enc.out.header[f]
    /\ calls.dec.password = calls.enc.password

\* the bytes of a payload that decryptToken returned
PayloadBytes(out) == IF out.kind = "text" THEN utf8Encode(out.payload) ELSE out.payload

\* C15, as stated: changing a header field that is no input of key derivation
\* or decryption does not make decryptToken with the correct password fail:
\* it succeeds, returns the same plaintext bytes and the altered header
C15_HeaderNotBound ==
    HeaderChanged =>
        /\ calls.dec.out.ok
        /\ calls.dec.out.header = calls.dec.token[2].json
        /\ PayloadBytes(calls.dec.out) = PlainBytes

\* C15, amended: with such a header decryptToken with the correct password
\* succeeds and returns the altered header and the fingerprint of the
\* ciphertext; the payload is the decrypted plaintext bytes when the altered
\* kind is not "text", and TextDecoder's reading of them when it is
C15_HeaderNotBoundKind ==
    HeaderChanged =>
        LET out == calls.dec.out
            h == calls.dec.token[2].json
        IN /\ out.ok
           /\ out.header = h
           /\ out.fingerprint = calls.enc.out.fingerprint
           /\ IF "kind" \in DOMAIN h /\ h.kind = "text"
              THEN out.kind = "text" /\ out.payload = utf8Decode(PlainBytes)
              ELSE out.kind = "file" /\ out.payload = PlainBytes

\* the token of a file was given a header of kind "text" and was opened as text
C15_Witness ==
    /\ HeaderChanged
    /\ calls.enc.fn = "encryptFile"
    /\ calls.dec.token[2].json.kind = "text"
    /\ calls.dec.out.ok /\ calls.dec.out.kind = "text"
    /\ calls.dec.out.header.kind = "text"
    /\ calls.dec.out.payload = << 0, ReplacementChar >>

\* C17: for every requested iteration count n, encryptText and encryptFile
\* derive the key with, and record in header.iter, min(600000, max(50000, n));
\* when n is absent the value is 220000 for text and 260000 for files
C17_IterationsClamped ==
    calls.enc # NoInput =>
        LET opts == calls.enc.opts
            n == opts.iterations
            floor == IF n > 50000 THEN n ELSE 50000
            want == IF "iterations" \in DOMAIN opts
                    THEN (IF floor < 600000 THEN floor ELSE 600000)
                    ELSE IF calls.enc.fn = "encryptText" THEN 220000 ELSE 260000
            key == deriveKey(opts.password, calls.enc.salt, want)
        IN /\ calls.enc.out.header.iter = want
           /\ calls.enc.out.token[2].json.iter = want
           /\ calls.enc.out.token[3] = toB64Url(AesGcmEncrypt(key, calls.enc.iv, PlainBytes))

\* a file was encrypted with one iteration requested and the header says 50000
C17_Witness ==
    /\ calls.enc # NoInput
    /\ calls.enc.fn = "encryptFile"
    /\ "iterations" \in DOMAIN calls.enc.opts
    /\ calls.enc.opts.iterations = 1
    /\ calls.enc.out.header.iter = MinIterations

\* C18: every key derivation the engine performs uses an iteration count
\* within [50000, 600000], the one in decryptToken (count taken from the
\* header's iter field) included
C18_DerivationsInRange ==
    /\ calls.enc # NoInput => calls.enc.out.header.iter \in MinIterations..MaxIterations
    /\ (calls.dec # NoInput /\ "deriveKey" \in calls.dec.out.work) =>
            LET header == calls.dec.token[2].json
            IN "iter" \in DOMAIN header /\ header.iter \in MinIterations..MaxIterations

(***************************************************************************)
(* Encryptions in a row (SpecFresh).  crypto.getRandomValues is taken to   *)
(* be an ideal random source: of the values of a length it can return, it  *)
(* returns one that it has not returned before.                            *)
(***************************************************************************)
Salt3 == [i \in 1..SaltLen |-> 51]
Iv3 == [i \in 1..IvLen |-> 7]
SaltPool == {Salt1, Salt2, Salt3}
IvPool == {Iv1, Iv2, Iv3}

\* the encryptions made so far, the latest one last
Encryptions == IF calls.enc = NoInput THEN <<>> ELSE Append(calls.earlier, calls.enc)

\* what crypto.getRandomValues(new Uint8Array(n)) can return next
getRandomValues(pool, field) == pool \ {Encryptions[i][field] : i \in 1..Len(Encryptions)}

AgainEncryptText(text, opts, now) ==
    /\ \E salt \in getRandomValues(SaltPool, "salt"), iv \in getRandomValues(IvPool, "iv") :
          calls' = [NoCalls EXCEPT
                        !.enc = [fn |-> "encryptText", plain |-> text,
                                 password |-> opts.password, opts |-> opts,
                                 salt |-> salt, iv |-> iv,
                                 out |-> encryptText(text, opts, salt, iv, now)],
                        !.earlier = Encryptions]
    /\ UNCHANGED << attempts, DecVars, toast, EncVars, runs, streak, expected,
                    DeviceVars, HostVars >>

AgainEncryptFile(file, opts, now) ==
    /\ \E salt \in getRandomValues(SaltPool, "salt"), iv \in getRandomValues(IvPool, "iv") :
          calls' = [NoCalls EXCEPT
                        !.enc = [fn |-> "encryptFile", plain |-> file,
                                 password |-> opts.password, opts |-> opts,
                                 salt |-> salt, iv |-> iv,
                                 out |-> encryptFile(file, opts, salt, iv, now)],
                        !.earlier = Encryptions]
    /\ UNCHANGED << attempts, DecVars, toast, EncVars, runs, streak, expected,
                    DeviceVars, HostVars >>

NextFresh ==
    \E now \in Clock :
        \/ AgainEncryptText(TextHi, [password |-> PwGood], now)
        \/ AgainEncryptFile(FileBin, [password |-> PwGood], now)

SpecFresh == Init /\ [][NextFresh]_vars

\* the key and IV a recorded encryption handed to AES-GCM, read off its header
KeyAndIv(c) ==
    << deriveKey(c.password, fromB64Url(c.out.header.salt).bytes, c.out.header.iter),
       fromB64Url(c.out.header.iv).bytes >>

StoreOf(d) == IF d = device THEN attempts ELSE stores[d]

\* a page reload can fall wherever the handlers of the tab are idle or wait
\* on a promise or a timer; the code between two awaits runs to its end
AwaitPoints == {"idle", "decryptToken", "timeout", "catch"}

\* the page of tab t is torn down and mounted again: the invocations in flight
\* are abandoned and every useState is back at its initial value
Remount(t) ==
    /\ pc[t] \in AwaitPoints
    /\ pc' = [pc EXCEPT ![t] = "idle"]
    /\ DropLocals(t)
    /\ decBusy' = [decBusy EXCEPT ![t] = FALSE]
    /\ decrypted' = [decrypted EXCEPT ![t] = Nothing]
    /\ toast' = [toast EXCEPT ![t] = NoToast]
    /\ encpc' = [encpc EXCEPT ![t] = "idle"]
    /\ encIn' = [encIn EXCEPT ![t] = NoInput]
    /\ encBusy' = [encBusy EXCEPT ![t] = FALSE]
    /\ encryptedToken' = [encryptedToken EXCEPT ![t] = EmptyString]

\* a reload leaves localStorage alone: nothing in the module runs at mount or
\* unmount that writes ATTEMPTS_KEY.  ReloadWiping is the faulty variant in
\* which the counters are component state and start again at mount
ReloadWiping(t) ==
    /\ Remount(t)
    /\ attempts' = EmptyMap
    /\ UNCHANGED << device, stores, calls >>
Reload(t) ==
    /\ Remount(t)
    /\ UNCHANGED << attempts, device, stores, calls >>

\* the page is opened on another device, where the token has been carried as
\* a string; it is mounted fresh there and reads that device's localStorage.
\* OpenOnDeviceShared is the faulty variant in which the counters follow the
\* user from device to device
OpenOnDeviceShared(d) ==
    /\ d # device
    /\ \A t \in Tabs : pc[t] = "idle" /\ encpc[t] = "idle"
    /\ device' = d
    /\ UNCHANGED << attempts, stores >>
    /\ decrypted' = [t \in Tabs |-> Nothing]
    /\ toast' = [t \in Tabs |-> NoToast]
    /\ encryptedToken' = [t \in Tabs |-> EmptyString]
    /\ UNCHANGED << pc, DecLocals, decBusy, encpc, encIn, encBusy, calls >>
OpenOnDevice(d) ==
    /\ d # device
    /\ \A t \in Tabs : pc[t] = "idle" /\ encpc[t] = "idle"
    /\ device' = d
    /\ attempts' = stores[d]
    /\ stores' = [stores EXCEPT ![device] = attempts, ![d] = EmptyMap]
    /\ decrypted' = [t \in Tabs |-> Nothing]
    /\ toast' = [t \in Tabs |-> NoToast]
    /\ encryptedToken' = [t \in Tabs |-> EmptyString]
    /\ UNCHANGED << pc, DecLocals, decBusy, encpc, encIn, encBusy, calls >>

\* device "A" has been used before, the other devices have not
InitDevices ==
    /\ PageInit
    /\ OneDevice
    /\ subtle = TRUE
    /\ attempts \in EarlierMaps
    /\ tried = {<< device, f >> : f \in DOMAIN attempts}
    /\ expected = [initial |-> attempts, map |-> attempts, released |-> FALSE]

\* the handlers invoked on the page that is followed
StartDevices(t) ==
    \/ \E tok \in {TokA, TokNoPrefix}, pw \in Passwords : RunDecrypt(t, tok, pw)
    \/ RunEncryptText(t, TextHi, PwGood, <<>>)
    \/ RunEncryptFile(t, FileBin, PwGood, <<>>)

\* the attempt that tab t has just started is noted with its device
TriedStep(t) ==
    tried' =
        IF pc[t] = "idle" /\ pc'[t] = "decryptToken" /\ fingerprintFromToken(token'[t]).ok
        THEN tried \cup {<< device, fingerprintFromToken(token'[t]).fingerprint >>}
        ELSE tried

NextDevices ==
    \/ runs < MaxRuns /\ runs' = runs + 1 /\ StartDevices(1) /\ TriedStep(1)
          /\ UNCHANGED << streak, expected, device, stores, reloaded, HostVars >>
    \/ Step(1) /\ UNCHANGED << runs, streak, expected, DeviceVars, HostVars >>
    \/ Reload(1) /\ reloaded' = [kind |-> "reload", at |-> attempts]
          /\ UNCHANGED << runs, streak, expected, tried, HostVars >>
    \/ \E d \in Devices : OpenOnDevice(d) /\ reloaded' = NoReload
          /\ UNCHANGED << runs, streak, expected, tried, HostVars >>

SpecDevices == InitDevices /\ [][NextDevices]_vars

\* C19: attempt counters are per device: decrypt attempts made on device A
\* never change any counter on device B, and a token that is locked on A
\* starts with counter 0 on a device where it was never tried
C19_CountersPerDevice ==
    [][/\ \A d \in Devices :
              StoreOf(d)' # StoreOf(d) => device = d /\ device' = d
       /\ \A d \in Devices : \A f \in {FpA, FpB} :
              << d, f >> \notin tried' => Used(StoreOf(d)', f) = 0
       /\ \A t \in Tabs :
              (pc[t] = "idle" /\ pc'[t] = "decryptToken"
                 /\ fingerprintFromToken(token'[t]).ok
                 /\ << device, fingerprintFromToken(token'[t]).fingerprint >> \notin tried)
              => Used(attempts', fingerprintFromToken(token'[t]).fingerprint) = 0]_vars

\* TokA, locked on "A", was carried to "B" and decrypted there at the first
\* attempt; on "A" it is still locked
C19_Witness ==
    /\ device = "B"
    /\ Used(StoreOf("A"), FpA) >= maxAttempts
    /\ << "B", FpA >> \in tried
    /\ decrypted[1] = [kind |-> "text", text |-> TextHi]
    /\ Used(StoreOf("B"), FpA) = 0

\* C20: a page reload leaves every persisted counter unchanged: a fingerprint
\* that was locked before the reload is still refused after it, and an open
\* fingerprint keeps its failure count
C20_ReloadKeepsCounters ==
    [][/\ (\E t \in Tabs : Reload(t)) => attempts' = attempts /\ stores' = stores
       /\ reloaded' # NoReload /\ reloaded' # reloaded => reloaded'.at = attempts'
       /\ reloaded # NoReload =>
            \A t \in Tabs : \A f \in DOMAIN reloaded.at :
                IsLocked(reloaded.at[f]) =>
                    /\ device' = device => IsLocked(Used(attempts', f))
                    /\ (pc[t] = "try" /\ pc'[t] # "try" /\ res[t].fingerprint = f)
                       => /\ pc'[t] = "idle"
                          /\ toast'[t] = LockedToast
                          /\ decrypted'[t] = Nothing
                    /\ (decrypted'[t] # Nothing /\ decrypted'[t] # decrypted[t])
                       => res[t].fingerprint # f]_vars

\* TokA was locked when the page was reloaded; after the reload the correct
\* password was tried on it and refused, and the counter is what it was
C20_Witness ==
    /\ reloaded # NoReload
    /\ Used(reloaded.at, FpA) = maxAttempts
    /\ pc[1] = "idle"
    /\ toast[1] = LockedToast
    /\ decrypted[1] = Nothing
    /\ attempts = reloaded.at

(***************************************************************************)
(* Hosts with and without WebCrypto (SpecHost).  Whether crypto.subtle is  *)
(* there is a property of the host (an insecure context has none) and does *)
(* not change while the page is open.                                      *)
(***************************************************************************)
InitHost ==
    /\ PageInit
    /\ OneDevice
    /\ subtle \in BOOLEAN
    /\ attempts \in EarlierMaps
    /\ tried = {<< device, f >> : f \in DOMAIN attempts}
    /\ expected = [initial |-> attempts, map |-> attempts, released |-> FALSE]

HostTokens == {TokA, TokNoPrefix}

StartHost(t) ==
    \/ \E tok \in {TokA, TokNoPrefix}, pw \in {PwGood} : RunDecrypt(t, tok, pw)
    \/ RunEncryptText(t, TextHi, PwGood, <<>>)
    \/ RunEncryptFile(t, FileBin, PwGood, <<>>)

NextHost ==
    \/ runs < MaxRuns /\ runs' = runs + 1 /\ StartHost(1)
          /\ UNCHANGED << streak, expected, DeviceVars, HostVars >>
    \/ Step(1) /\ UNCHANGED << runs, streak, expected, DeviceVars, HostVars >>
    \/ \E r \in PageRandom, now \in Clock :
            CallEncryptText(TextHi, [password |-> PwGood], r[1], r[2], now)
    \/ \E r \in PageRandom, now \in Clock :
            CallEncryptFile(FileBin, [password |-> PwGood], r[1], r[2], now)
    \/ \E tok \in HostTokens : CallDecryptToken(tok, PwGood)
    \/ \E tok \in HostTokens : CallFingerprintFromToken(tok)

SpecHost == InitHost /\ [][NextHost]_vars

\* C21: when the host's cryptographic primitives are unavailable, encryptText,
\* encryptFile, decryptToken and fingerprintFromToken each fail with the
\* environment error before doing anything else, and a decrypt attempt made in
\* that condition leaves the attempts map unchanged
C21_EnvironmentErrorFirst ==
    [][~subtle =>
        /\ attempts' = attempts
        /\ calls'.enc # NoInput => calls'.enc.out = Throw(EnvMessage)
        /\ calls'.dec # NoInput => calls'.dec.out = Throw(EnvMessage) @@ [work |-> {}]
        /\ calls'.fpt # NoInput => calls'.fpt.out = Throw(EnvMessage)
        /\ \A t \in Tabs :
            /\ pc[t] = "decryptToken" /\ pc'[t] # pc[t]
                 => pc'[t] = "catch" /\ res'[t] = Throw(EnvMessage) @@ [work |-> {}]
            /\ pc[t] = "catch" /\ pc'[t] # pc[t] => pc'[t] = "caught" /\ fp'[t] = Unknown
            /\ pc[t] = "caught" /\ pc'[t] # pc[t]
                 => pc'[t] = "idle" /\ toast'[t] = Toast("error", EnvMessage)
            /\ encpc[t] # "idle" /\ encpc'[t] = "idle"
                 => /\ toast'[t] = Toast("error", EnvMessage)
                    /\ encryptedToken'[t] = EmptyString]_vars

\* without WebCrypto: all four exports have been called, decryptToken on a
\* string without the prefix; on the page the attempt on TokA, which has four
\* failures on record, has failed and found no fingerprint to charge
C21_Witness ==
    /\ ~subtle
    /\ calls.enc # NoInput /\ calls.fpt # NoInput
    /\ calls.dec # NoInput /\ calls.dec.token = TokNoPrefix
    /\ calls.dec.out.message = EnvMessage
    /\ pc[1] = "caught" /\ token[1] = TokA /\ fp[1] = Unknown
    /\ res[1].message = EnvMessage
    /\ attempts = [f \in {FpA} |-> 4]

(***************************************************************************)
(* What the catch block of runDecrypt charges (Spec, SpecTabs)             *)
(***************************************************************************)
\* the attempt in flight in tab t was rejected by decryptToken for its header:
\* the token has the prefix, three segments and a decodable ciphertext, and
\* decryptToken threw before it started any WebCrypto operation
HeaderRejected(t) ==
    /\ HasPrefix(token[t]) /\ Len(token[t]) = 3
    /\ fromB64Url(token[t][3]).ok
    /\ ~res[t].ok /\ res[t].work = {}

\* C22: only an authentication failure is charged as an attempt: a decrypt
\* attempt on a token that has the PASCO1. prefix and three segments but is
\* rejected for its header leaves the attempts map unchanged and is reported
\* as a format error, not as a wrong key with remaining attempts
C22_OnlyAuthFailureCharged ==
    [][\A t \in Tabs :
          (pc[t] \in {"caught", "charge"} /\ pc'[t] = "idle" /\ HeaderRejected(t))
          => /\ attempts' = attempts
             /\ toast'[t] = Toast("error", res[t].message)]_vars

(***************************************************************************)
(* The history list (SpecHistory).  runDecrypt, runEncryptText and         *)
(* runEncryptFile are closures of the render in which the button was       *)
(* clicked, and so is the pushHistory they call: the history it prepends   *)
(* to is the React state as it was when the invocation started.            *)
(* crypto.randomUUID() is modelled by the number of the invocation.        *)
(***************************************************************************)
HistoryCap == 20

\* [item, ...history].slice(0, 20)
Pushed(item, captured) ==
    LET all == << item >> \o captured
    IN SubSeq(all, 1, IF Len(all) < HistoryCap THEN Len(all) ELSE HistoryCap)

\* pushHistory(item) as called by an invocation that captured the history
pushHistory(t, item, captured) ==
    /\ history' = [history EXCEPT ![t] = Pushed(item, captured)]
    /\ historyStore' = Pushed(item, captured)

\* the item the runDecrypt invocation of tab t pushes when it ends from pc[t]:
\* lines 337-347 (refused), 372-382 (released), 407-414 (catch)
DecryptItem(t) ==
    [id |-> closure[t].decId, action |-> "decrypt",
     kind |-> IF pc[t] \in {"try", "timeout"} THEN res[t].kind ELSE "text",
     fingerprint |-> IF pc[t] \in {"try", "timeout"} THEN res[t].fingerprint ELSE fp[t],
     ok |-> pc[t] = "timeout"]

\* the item a runEncrypt* invocation pushes: lines 225-247 and 271-293
EncryptItem(t, shown) ==
    [id |-> closure[t].encId, action |-> "encrypt",
     kind |-> encpc[t],
     fingerprint |-> IF shown = EmptyString THEN << "n", "/", "a" >>
                     ELSE sha256Hex(fromB64Url(shown[3]).bytes),
     ok |-> shown # EmptyString]

\* the history part of every handler step of tab t
HistoryStep(t) ==
    IF pc[t] = "idle" /\ pc'[t] # "idle"
    THEN /\ closure' = [closure EXCEPT ![t].dec = history[t], ![t].decId = runs']
         /\ UNCHANGED << history, historyStore >>
    ELSE IF encpc[t] = "idle" /\ encpc'[t] # "idle"
    THEN /\ closure' = [closure EXCEPT ![t].enc = history[t], ![t].encId = runs']
         /\ UNCHANGED << history, historyStore >>
    ELSE IF pc[t] # "idle" /\ pc'[t] = "idle"
    THEN /\ pushHistory(t, DecryptItem(t), closure[t].dec)
         /\ closure' = [closure EXCEPT ![t].dec = <<>>, ![t].decId = 0]
    ELSE IF encpc[t] # "idle" /\ encpc'[t] = "idle"
    THEN /\ pushHistory(t, EncryptItem(t, encryptedToken'[t]), closure[t].enc)
         /\ closure' = [closure EXCEPT ![t].enc = <<>>, ![t].encId = 0]
    ELSE UNCHANGED << history, historyStore, closure >>

InitHistory ==
    /\ PageInit
    /\ OneDevice
    /\ subtle = TRUE
    /\ attempts \in EarlierMaps
    /\ tried = {<< device, f >> : f \in DOMAIN attempts}
    /\ expected = [initial |-> attempts, map |-> attempts, released |-> FALSE]

StartHistory(t) ==
    \/ \E tok \in {TokA, TokNoPrefix, TokTwoParts, TokBadCipher}, pw \in Passwords :
            RunDecrypt(t, tok, pw)
    \/ RunEncryptText(t, TextHi, PwGood, <<>>)
    \/ RunEncryptFile(t, FileBin, PwGood, <<>>)

NextHistory ==
    \/ runs < MaxRuns /\ runs' = runs + 1 /\ StartHistory(1) /\ HistoryStep(1)
          /\ UNCHANGED << streak, expected, DeviceVars, subtle >>
    \/ Step(1) /\ HistoryStep(1)
          /\ UNCHANGED << runs, streak, expected, DeviceVars, subtle >>

SpecHistory == InitHistory /\ [][NextHistory]_vars

\* the string is one for which fingerprintFromToken has no fingerprint
BadShape(tok) ==
    \/ ~(Len(tok) >= 2 /\ tok[1] = "PASCO1")
    \/ Len(tok) # 3
    \/ ~fromB64Url(tok[3]).ok

\* C23: a decrypt attempt whose token lacks the PASCO1. prefix, does not have
\* exactly three segments, or has an undecodable ciphertext segment leaves the
\* attempts map unchanged for every fingerprint, and is recorded in history
\* with fingerprint "unknown"
C23_BadShapeNotCharged ==
    [][\A t \in Tabs :
          (pc[t] # "idle" /\ BadShape(token[t]))
          => /\ attempts' = attempts
             /\ pc'[t] = "idle" =>
                    /\ Len(history'[t]) >= 1
                    /\ history'[t][1] = [id |-> closure[t].decId, action |-> "decrypt",
                                         kind |-> "text", fingerprint |-> Unknown,
                                         ok |-> FALSE]
                    /\ historyStore' = history'[t]]_vars

\* a string of two segments and one with an undecodable ciphertext segment
\* have been tried: two entries with fingerprint "unknown", and the map is
\* what earlier sessions left
C23_Witness ==
    /\ pc[1] = "idle" /\ encpc[1] = "idle"
    /\ Len(historyStore) = 2
    /\ \A i \in 1..2 : historyStore[i].fingerprint = Unknown /\ ~historyStore[i].ok
    /\ toast[1].level = "error"
    /\ toast[1].message \in {"Invalid token format.", "InvalidCharacterError"}
    /\ attempts = [f \in {FpA} |-> 4]

(***************************************************************************)
(* Releases and writes among several tabs (SpecTabs)                       *)
(***************************************************************************)
\* C24: under any interleaving of decrypt attempts from several tabs on one
\* device, a plaintext is never released for a fingerprint whose persisted
\* counter is 5 or more at the moment of release, and a successful attempt
\* never overwrites a locked counter with 0: the lock check and the
\* release-and-reset act on the same counter value
C24_ReleaseSeesCurrentCounter ==
    [][\A t \in Tabs :
          (pc[t] = "timeout" /\ pc'[t] = "idle")
          => LET f == res[t].fingerprint
             IN /\ ~IsLocked(Used(attempts, f))
                /\ Used(attemptsMap[t], f) = Used(attempts, f)]_vars

\* C25: a decrypt attempt on a token with fingerprint A, whether it succeeds,
\* fails or is refused, leaves the persisted counter of every other
\* fingerprint B as the latest write left it, also when another tab has
\* updated B's counter while the attempt on A was in flight
C25_OtherFingerprintsKept ==
    [][\A t \in Tabs :
          (pc[t] \in {"try", "timeout", "caught", "charge"} /\ pc'[t] # pc[t])
          => LET own == IF pc[t] \in {"try", "timeout"} THEN res[t].fingerprint ELSE fp[t]
             IN \A f \in (DOMAIN attempts \cup DOMAIN attempts') \ {own} :
                    Used(attempts', f) = Used(attempts, f)]_vars

(***************************************************************************)
(* The lock in a single tab (Spec)                                         *)
(***************************************************************************)
\* C26: within a single tab, Locked is absorbing: once a fingerprint's
\* persisted counter is 5 or more, no sequence of encrypt and decrypt
\* operations with any passwords brings it below 5 again on that device
C26_LockedIsAbsorbing ==
    [][\A f \in DOMAIN attempts :
          IsLocked(attempts[f]) => IsLocked(Used(attempts', f))]_vars

\* TokA was locked by five wrong passwords, an attempt on it was then refused,
\* an encryption has completed since, and the counter is still 5
C26_Witness ==
    /\ pc[1] = "idle" /\ encpc[1] = "idle"
    /\ streak = [fp |-> FpA, n |-> maxAttempts, ended |-> TRUE]
    /\ toast[1] = Toast("success", "Encrypted successfully")
    /\ Used(attempts, FpA) = maxAttempts

(***************************************************************************)
(* Entries of the history (SpecHistory)                                    *)
(***************************************************************************)
\* C27: every encrypt or decrypt action that completes adds one entry to the
\* history and that entry is not lost to another action: when an encryption
\* and a decryption are in flight at the same time in one tab, the history
\* stored after both have finished contains an entry for each of them
C27_HistoryKeepsEveryEntry ==
    [][/\ \A i \in 1..Len(historyStore) :
              \E j \in 1..Len(historyStore') : historyStore'[j] = historyStore[i]
       /\ \A t \in Tabs :
              /\ (pc[t] # "idle" /\ pc'[t] = "idle")
                    => /\ Len(historyStore') = Len(historyStore) + 1
                       /\ historyStore'[1].id = closure[t].decId
              /\ (encpc[t] # "idle" /\ encpc'[t] = "idle")
                    => /\ Len(historyStore') = Len(historyStore) + 1
                       /\ historyStore'[1].id = closure[t].encId]_vars

(***************************************************************************)
(* Progress of the handlers (SpecLive).  Every await of a handler settles: *)
(* a promise of the engine resolves or rejects and a timer fires, and the  *)
(* continuation then runs to the next await.  This is weak fairness of the *)
(* steps of each tab.                                                      *)
(***************************************************************************)
OfTab(t) == ExpectedStep(t) /\ UNCHANGED << runs, streak, DeviceVars, HostVars >>

\* the continuations of runDecrypt that follow a timer or a localStorage access
PageStep(t) ==
    /\ \/ LockCheck(t)
       \/ Release(t)
       \/ ChargeLoad(t)
       \/ ChargeSave(t)
       \/ ReportError(t)
    /\ OfTab(t)

\* the continuations that follow a promise of the engine: decryptToken or
\* fingerprintFromToken in runDecrypt, encryptText or encryptFile in the other
\* two handlers
DecryptAwaited(t) ==
    /\ \/ DecryptTokenSettles(t)
       \/ CatchFingerprint(t)
    /\ OfTab(t)

EncryptAwaited(t) ==
    /\ \/ \E r \in PageRandom, now \in Clock : EncryptTextDone(t, r[1], r[2], now)
       \/ \E r \in PageRandom, now \in Clock : EncryptFileDone(t, r[1], r[2], now)
    /\ OfTab(t)

\* the handler positions at which an engine continuation is due; such a step
\* has no guard but its position, so these are the states in which
\* DecryptAwaited(t) and EncryptAwaited(t) are enabled
AwaitsDecrypt(t) == pc[t] \in {"decryptToken", "catch"}
AwaitsEncrypt(t) == encpc[t] \in {"text", "file"}

\* weak fairness of the engine continuations, the enabling condition written
\* out by position instead of computed from the engine's result
EngineSettles(t) ==
    /\ <>[]AwaitsDecrypt(t) => []<><< DecryptAwaited(t) >>_vars
    /\ <>[]AwaitsEncrypt(t) => []<><< EncryptAwaited(t) >>_vars

\* one tab, in which a decryption and an encryption can be in flight together,
\* on a device whose map earlier sessions have left behind
NextLive ==
    \/ runs < MaxRuns /\ runs' = runs + 1 /\ StartTabs(1)
          /\ UNCHANGED << streak, expected, DeviceVars, HostVars >>
    \/ Step(1) /\ OfTab(1)

SpecLive ==
    /\ InitTabs /\ [][NextLive]_vars
    /\ WF_vars(PageStep(1)) /\ EngineSettles(1)

\* C28: every runDecrypt invocation that passes the empty-input guards
\* eventually sets decBusy back to false, whatever its outcome, and every
\* runEncryptText / runEncryptFile invocation likewise eventually clears
\* encBusy
C28_BusyEventuallyCleared ==
    /\ decBusy[1] ~> ~decBusy[1]
    /\ encBusy[1] ~> ~encBusy[1]

\* the tab has ended a decryption that failed authentication, and an
\* encryption besides; it is idle and not busy
C28_Witness ==
    /\ pc[1] = "idle" /\ ~decBusy[1]
    /\ encpc[1] = "idle" /\ ~encBusy[1]
    /\ runs = MaxRuns
    /\ encryptedToken[1] # EmptyString
    /\ Used(attempts, FpA) > Used(expected.initial, FpA)

(***************************************************************************)
(* The error of the decrypt step (SpecCodec)                               *)
(***************************************************************************)
\* the call ended in the catch block around crypto.subtle.decrypt
FailedAtDecrypt(call) ==
    /\ call # NoInput
    /\ ~call.out.ok
    /\ "decrypt" \in call.out.work

\* C29: decryptToken gives the same error for a wrong password and for a
\* corrupted ciphertext: every failure of the AES-GCM decrypt step is reported
\* with the single message "Wrong key or corrupted token.", and the error of
\* one such call has nothing that tells it from the error of another
C29_OneErrorForBothCauses ==
    [][FailedAtDecrypt(calls'.dec) =>
            /\ calls'.dec.out.message = AuthMessage
            /\ DOMAIN calls'.dec.out = {"ok", "message", "work"}
            /\ FailedAtDecrypt(calls.dec) => calls'.dec.out = calls.dec.out]_vars

\* a file token was tried with another password, and the call ended in the
\* catch block around crypto.subtle.decrypt
C29_Witness ==
    /\ calls.enc # NoInput /\ calls.enc.fn = "encryptFile"
    /\ FailedAtDecrypt(calls.dec)
    /\ calls.dec.token = calls.enc.out.token
    /\ utf8Encode(calls.dec.password) # utf8Encode(calls.enc.password)
    /\ calls.dec.out = Throw(AuthMessage) @@ [work |-> {"deriveKey", "decrypt"}]

====
